---- MODULE Spec2Model ----
(***************************************************************************)
(* MultiVehicleSearch: findListings.py.                                    *)
(*                                                                         *)
(* The module models the functions of findListings.py as one state         *)
(* machine.  A run is one call of an entry point (findListings or          *)
(* vehicles_fit_listings) with arguments drawn from small sets; the        *)
(* nested call of vehicle_order_fit_slot is executed one vehicle at a      *)
(* time.                                                                   *)
(*                                                                         *)
(* Python values are modelled as follows.  A list is a sequence, a tuple   *)
(* (id, capacity) is a 2-tuple, a dict with fixed keys is a record, a      *)
(* dict keyed by data is a function.  Values whose Python type matters to  *)
(* a caller (None / set / frozenset / list) carry their type in a "type"   *)
(* field.                                                                  *)
(***************************************************************************)
EXTENDS Integers, Sequences, FiniteSets, TLC

\* ------------------------------------------------------------------------
\* Bounds of the model and the small input sets
\* ------------------------------------------------------------------------

\* At most this many listing records in one input.
MaxListings == 2

\* At most this many vehicles in one demand.
MaxVehicles == 2

\* At most this many vehicle orderings handed to vehicles_fit_listings.
MaxOrderings == 2

\* Listing dimensions: below one lane (5), exactly one lane (10), and two
\* lanes with a remainder (25).
Dims == {5, 10, 25}

\* Vehicle lengths: shorter than a lane is wide (5), so that only the number
\* of slots keeps it out of a listing below one lane, and one lane long (10).
VehLens == {5, 10}

\* Listing identifiers, by position in the input.
ListingIds == <<"A", "B", "C", "D">>

\* price_in_cents of the listing at each position of the input.
ListingPrices == <<200, 200, 500, 300>>

LocationIds == {"loc1", "loc2"}

\* A listing as load_locations stores it (lines 14-19).
ListingInfo(k, l, w) ==
    [id |-> ListingIds[k], length |-> l, width |-> w,
     price_in_cents |-> ListingPrices[k]]

\* Lists of listings of one location: ids are distinct.
ListingLists ==
    UNION { { [k \in 1..n |-> ListingInfo(k, d[k][1], d[k][2])] :
                d \in [1..n -> Dims \X Dims] } : n \in 0..MaxListings }

\* The records of listings.json: a listing plus its location_id.
FileRecord(k, l, w, loc) ==
    [id |-> ListingIds[k], location_id |-> loc, length |-> l, width |-> w,
     price_in_cents |-> ListingPrices[k]]

\* Dimensions of the listings of listings.json: no lane (5) or two lanes (25).
FileDims == {5, 25}

ListingFiles ==
    UNION { { [k \in 1..n |-> FileRecord(k, d[k][1], d[k][2], d[k][3])] :
                d \in [1..n -> FileDims \X FileDims \X LocationIds] } :
            n \in 0..MaxListings }

\* Number of occurrences of x in the sequence s.
Count(s, x) == Cardinality({i \in 1..Len(s) : s[i] = x})

\* Vehicle demands, one representative (ascending) list per multiset.
Demands ==
    UNION { { d \in [1..n -> VehLens] :
                \A i \in 1..n, j \in 1..n : i < j => d[i] <= d[j] } :
            n \in 0..MaxVehicles }

\* The orderings of a demand.
Orderings(d) ==
    { o \in [1..Len(d) -> VehLens] : \A x \in VehLens : Count(o, x) = Count(d, x) }

\* Lists of at most MaxOrderings orderings of one demand (repeats allowed, as
\* itertools.permutations repeats equal vehicles).
OrderingLists ==
    UNION { UNION { [1..k -> Orderings(d)] : k \in 0..MaxOrderings } : d \in Demands }

\* Vehicle queries: items {length, quantity} asking for at most MaxVehicles
\* vehicles in total.
QueryItems == [length : VehLens, quantity : 0..MaxVehicles]

RECURSIVE SumQuantity(_)
SumQuantity(q) ==
    IF q = <<>> THEN 0 ELSE Head(q).quantity + SumQuantity(Tail(q))

VehicleQueries ==
    { q \in UNION { [1..n -> QueryItems] : n \in 0..2 } :
        SumQuantity(q) <= MaxVehicles }

\* ------------------------------------------------------------------------
\* Python values
\* ------------------------------------------------------------------------

PyNone == [type |-> "NoneType"]
PySet(S) == [type |-> "set", elems |-> S]
PyFrozenset(S) == [type |-> "frozenset", elems |-> S]
PyList(s) == [type |-> "list", items |-> s]

\* Truth value of the result of vehicle_order_fit_slot in `if listings_used:`
\* (line 59): None and the empty set are false.
Truthy(v) == v.type = "set" /\ v.elems # {}

\* ------------------------------------------------------------------------
\* Pure functions of findListings.py
\* ------------------------------------------------------------------------

\* load_locations (lines 7-21): group the records by location_id, keeping
\* file order and dropping the location_id key.
RECURSIVE SelectLocation(_, _)
SelectLocation(file, loc) ==
    IF file = <<>> THEN <<>>
    ELSE LET r == Head(file)
             info == [id |-> r.id, length |-> r.length, width |-> r.width,
                      price_in_cents |-> r.price_in_cents]
         IN  IF r.location_id = loc
             THEN <<info>> \o SelectLocation(Tail(file), loc)
             ELSE SelectLocation(Tail(file), loc)

load_locations(file) ==
    [loc \in {file[i].location_id : i \in 1..Len(file)} |-> SelectLocation(file, loc)]

\* [x] * n (lines 28, 52, 55): n copies of x, none when n <= 0.
Repeat(x, n) == [i \in 1..n |-> x]

\* parse_vehicle_query (lines 24-29).
RECURSIVE parse_vehicle_query(_)
parse_vehicle_query(vehicle_query) ==
    IF vehicle_query = <<>> THEN <<>>
    ELSE Repeat(Head(vehicle_query).length, Head(vehicle_query).quantity)
         \o parse_vehicle_query(Tail(vehicle_query))

Orientations == <<"width", "length">>

\* Slot counts rounded up instead of truncated.
ListingSlotsRoundUp(listing, orient) ==
    IF orient = "width"
    THEN Repeat(<<listing.id, listing.length>>, (listing.width + 9) \div 10)
    ELSE Repeat(<<listing.id, listing.width>>, (listing.length + 9) \div 10)

\* Slot counts taken from the dimension that also gives the capacity.
ListingSlotsSameAxis(listing, orient) ==
    IF orient = "width"
    THEN Repeat(<<listing.id, listing.length>>, listing.length \div 10)
    ELSE Repeat(<<listing.id, listing.width>>, listing.width \div 10)

\* Lines 50-55: the slots one listing contributes under an orientation.
ListingSlots(listing, orient) ==
    IF orient = "width"
    THEN Repeat(<<listing.id, listing.length>>, listing.width \div 10)
    ELSE Repeat(<<listing.id, listing.width>>, listing.length \div 10)

\* Lines 48-55: the slot list of all the listings, in listing order.
RECURSIVE BuildLocationSlots(_, _)
BuildLocationSlots(ls, orient) ==
    IF ls = <<>> THEN <<>>
    ELSE ListingSlots(Head(ls), orient) \o BuildLocationSlots(Tail(ls), orient)

\* The comparison of line 36 the wrong way round.
AdmitsReversed(slot, vehicle_len) == vehicle_len >= slot[2]

\* Line 36: the test that admits a vehicle to a slot.
Admits(slot, vehicle_len) == vehicle_len <= slot[2]

\* A smarter packer: the admitting slot with the least capacity left wins.
BestFitIndex(vehicle_len, location_slots_arg) ==
    LET fits == {i \in 1..Len(location_slots_arg) :
                    Admits(location_slots_arg[i], vehicle_len)}
    IN  IF fits = {} THEN 0
        ELSE CHOOSE i \in fits :
                \A j \in fits :
                    \/ location_slots_arg[i][2] < location_slots_arg[j][2]
                    \/ (location_slots_arg[i][2] = location_slots_arg[j][2] /\ i <= j)

\* An inner loop without its break: the last admitting slot wins.
LastFitIndex(vehicle_len, location_slots_arg) ==
    LET fits == {i \in 1..Len(location_slots_arg) :
                    Admits(location_slots_arg[i], vehicle_len)}
    IN  IF fits = {} THEN 0
        ELSE CHOOSE i \in fits : \A j \in fits : i >= j

\* Lines 35-40: the index of the slot the inner loop stops at, 0 when it runs
\* to the end without a break.
FirstFitIndex(vehicle_len, location_slots_arg) ==
    LET fits == {i \in 1..Len(location_slots_arg) :
                    Admits(location_slots_arg[i], vehicle_len)}
    IN  IF fits = {} THEN 0
        ELSE CHOOSE i \in fits : \A j \in fits : i <= j

\* Line 37: location_slots[i] = (slot[0], slot[1] - vehicle_len).
PlaceVehicle(location_slots_arg, i, vehicle_len) ==
    [location_slots_arg EXCEPT ![i] = <<@[1], @[2] - vehicle_len>>]

\* A loop that goes on to the next vehicle whether or not this one was placed.
ReturnsEarlyNever(updated) == FALSE

\* Lines 41-42: `if not updated: return`.
ReturnsEarly(updated) == ~updated

\* The call of line 58 without .copy(): caller and callee share one list.
CallerSlotsAliased(caller_slots, callee_slots) == callee_slots

\* Line 58: the callee works on location_slots.copy(), a list object of its
\* own, so its item assignments leave the caller's list as it was.
CallerSlotsAfterFit(caller_slots, callee_slots) == caller_slots

\* ------------------------------------------------------------------------
\* State
\* ------------------------------------------------------------------------

VARIABLES
    pc,                    \* position of the running call
    entry,                 \* the entry point that was called
    listings_file,         \* contents of listings.json
    vehicle_query,         \* findListings: the argument
    fl_listings,           \* findListings: local `listings` (line 64)
    result,                \* value returned by the entry point
    listings,              \* vehicles_fit_listings: argument
    vehicle_orderings,     \* vehicles_fit_listings: argument
    orientation,           \* index in Orientations of the running iteration
    location_slots,        \* vehicles_fit_listings: local slot list
    ord_idx,               \* index of the running vehicle_orderings iteration
    listings_combinations, \* vehicles_fit_listings: local result set
    vehicle_order,         \* vehicle_order_fit_slot: argument
    slots,                 \* vehicle_order_fit_slot: its location_slots list
    veh_idx,               \* index of the running vehicle_order iteration
    listings_used,         \* vehicle_order_fit_slot: local set
    placed,                \* history: slot index chosen for each vehicle so far
    fit_result             \* value returned by vehicle_order_fit_slot

vars == <<pc, entry, listings_file, vehicle_query, fl_listings, result,
          listings, vehicle_orderings, orientation, location_slots, ord_idx,
          listings_combinations, vehicle_order, slots, veh_idx,
          listings_used, placed, fit_result>>

findVars == <<listings_file, vehicle_query, fl_listings>>
vflVars == <<listings, vehicle_orderings, orientation, location_slots,
             ord_idx, listings_combinations>>
fitVars == <<vehicle_order, slots, veh_idx, listings_used, placed, fit_result>>

Pending == [type |-> "pending"]

Init ==
    /\ pc = "idle"
    /\ entry = "none"
    /\ listings_file = <<>>
    /\ vehicle_query = <<>>
    /\ fl_listings = <<>>
    /\ result = Pending
    /\ listings = <<>>
    /\ vehicle_orderings = <<>>
    /\ orientation = 0
    /\ location_slots = <<>>
    /\ ord_idx = 0
    /\ listings_combinations = {}
    /\ vehicle_order = <<>>
    /\ slots = <<>>
    /\ veh_idx = 0
    /\ listings_used = {}
    /\ placed = <<>>
    /\ fit_result = Pending

\* ------------------------------------------------------------------------
\* findListings (lines 63-101)
\* ------------------------------------------------------------------------

\* A call findListings(vehicle_query) with some listings.json on disk.
CallFindListings ==
    /\ pc = "idle"
    /\ \E file \in ListingFiles, q \in VehicleQueries :
          /\ listings_file' = file
          /\ vehicle_query' = q
    /\ entry' = "findListings"
    /\ pc' = "fl_load"
    /\ UNCHANGED <<fl_listings, result, vflVars, fitVars>>

\* Line 64: listings = load_locations(listings_path).
FindListingsLoad ==
    /\ pc = "fl_load"
    /\ fl_listings' = load_locations(listings_file)
    /\ pc' = "fl_end"
    /\ UNCHANGED <<entry, listings_file, vehicle_query, result, vflVars, fitVars>>

\* Lines 65-101 hold comments only: the body ends and the call returns None.
FindListingsReturn ==
    /\ pc = "fl_end"
    /\ result' = PyNone
    /\ pc' = "done"
    /\ UNCHANGED <<entry, findVars, vflVars, fitVars>>

\* ------------------------------------------------------------------------
\* vehicles_fit_listings (lines 45-61)
\* ------------------------------------------------------------------------

\* A call vehicles_fit_listings(listings, vehicle_orderings); line 46.
CallVehiclesFitListings ==
    /\ pc = "idle"
    /\ \E ls \in ListingLists, os \in OrderingLists :
          /\ listings' = ls
          /\ vehicle_orderings' = os
    /\ entry' = "vehicles_fit_listings"
    /\ listings_combinations' = {}
    /\ orientation' = 0
    /\ pc' = "for_orientation"
    /\ UNCHANGED <<findVars, result, location_slots, ord_idx, fitVars>>

\* Lines 47-55: the next orientation; its slot list is built from scratch.
BuildSlots ==
    /\ pc = "for_orientation"
    /\ orientation < Len(Orientations)
    /\ orientation' = orientation + 1
    /\ location_slots' = BuildLocationSlots(listings, Orientations[orientation + 1])
    /\ ord_idx' = 0
    /\ pc' = "for_order"
    /\ UNCHANGED <<entry, findVars, result, listings, vehicle_orderings,
                   listings_combinations, fitVars>>

\* Lines 57-58: the next ordering; vehicle_order_fit_slot is entered with a
\* copy of the slot list (line 32 sets listings_used).
CallFit ==
    /\ pc = "for_order"
    /\ ord_idx < Len(vehicle_orderings)
    /\ ord_idx' = ord_idx + 1
    /\ vehicle_order' = vehicle_orderings[ord_idx + 1]
    /\ slots' = location_slots
    /\ listings_used' = {}
    /\ placed' = <<>>
    /\ veh_idx' = 1
    /\ fit_result' = Pending
    /\ pc' = "fit"
    /\ UNCHANGED <<entry, findVars, result, listings, vehicle_orderings,
                   orientation, location_slots, listings_combinations>>

\* Lines 33-42: one iteration of the loop over vehicle_order.
FitVehicle ==
    /\ pc = "fit"
    /\ veh_idx <= Len(vehicle_order)
    /\ LET vehicle_len == vehicle_order[veh_idx]
           i == FirstFitIndex(vehicle_len, slots)
           updated == i # 0
       IN  /\ slots' = IF updated THEN PlaceVehicle(slots, i, vehicle_len) ELSE slots
           /\ listings_used' =
                 IF updated THEN listings_used \cup {slots[i][1]} ELSE listings_used
           /\ placed' = IF updated THEN Append(placed, i) ELSE placed
           /\ IF ReturnsEarly(updated)
              THEN /\ fit_result' = PyNone
                   /\ pc' = "fit_return"
                   /\ UNCHANGED veh_idx
              ELSE /\ veh_idx' = veh_idx + 1
                   /\ UNCHANGED <<pc, fit_result>>
    /\ location_slots' = CallerSlotsAfterFit(location_slots, slots')
    /\ UNCHANGED <<entry, findVars, result, listings, vehicle_orderings,
                   orientation, ord_idx, listings_combinations, vehicle_order>>

\* Line 43: the loop is over, return listings_used.
FitReturn ==
    /\ pc = "fit"
    /\ veh_idx > Len(vehicle_order)
    /\ fit_result' = PySet(listings_used)
    /\ pc' = "fit_return"
    /\ UNCHANGED <<entry, findVars, result, vflVars, vehicle_order, slots,
                   veh_idx, listings_used, placed>>

\* Lines 59-60: a true result is added to the set as a frozenset.
Collect ==
    /\ pc = "fit_return"
    /\ listings_combinations' =
          IF Truthy(fit_result)
          THEN listings_combinations \cup {PyFrozenset(fit_result.elems)}
          ELSE listings_combinations
    /\ pc' = "for_order"
    /\ UNCHANGED <<entry, findVars, result, listings, vehicle_orderings,
                   orientation, location_slots, ord_idx, fitVars>>

\* Line 57: the orderings are exhausted, back to the loop of line 47.
OrderingsDone ==
    /\ pc = "for_order"
    /\ ord_idx = Len(vehicle_orderings)
    /\ pc' = "for_orientation"
    /\ UNCHANGED <<entry, findVars, result, vflVars, fitVars>>

\* Line 61: return listings_combinations.
VehiclesFitListingsReturn ==
    /\ pc = "for_orientation"
    /\ orientation = Len(Orientations)
    /\ result' = PySet(listings_combinations)
    /\ pc' = "done"
    /\ UNCHANGED <<entry, findVars, vflVars, fitVars>>

Next ==
    \/ CallFindListings
    \/ FindListingsLoad
    \/ FindListingsReturn
    \/ CallVehiclesFitListings
    \/ BuildSlots
    \/ CallFit
    \/ FitVehicle
    \/ FitReturn
    \/ Collect
    \/ OrderingsDone
    \/ VehiclesFitListingsReturn

Spec == Init /\ [][Next]_vars

\* ------------------------------------------------------------------------
\* Reference definitions: the notions the claims are stated in (first-fit
\* packing, slots of a listing, feasible combination), written out
\* declaratively and independently of the operators above.
\* ------------------------------------------------------------------------

\* dim div 10, truncating: the n with 10*n <= dim < 10*(n+1).
RefLanes(dim) == CHOOSE n \in 0..dim : 10 * n <= dim /\ dim < 10 * (n + 1)

RefSlotCount(listing, orient) ==
    IF orient = "width" THEN RefLanes(listing.width) ELSE RefLanes(listing.length)

RefSlotCapacity(listing, orient) ==
    IF orient = "width" THEN listing.length ELSE listing.width

RECURSIVE RefSlotList(_, _)
RefSlotList(ls, orient) ==
    IF ls = <<>> THEN <<>>
    ELSE [i \in 1..RefSlotCount(Head(ls), orient) |->
             <<Head(ls).id, RefSlotCapacity(Head(ls), orient)>>]
         \o RefSlotList(Tail(ls), orient)

\* The slots that can take a vehicle of length v.
RefFits(sl, v) == {j \in 1..Len(sl) : sl[j][2] >= v}

RefLowest(S) == CHOOSE i \in S : \A j \in S : i <= j

\* Greedy first-fit of the vehicles, in the given order, into the slots:
\* [ok |-> every vehicle was placed, used |-> owners of the slots used].
RECURSIVE RefPack(_, _, _)
RefPack(order, sl, used) ==
    IF order = <<>> THEN [ok |-> TRUE, used |-> used]
    ELSE LET v == Head(order)
             fits == RefFits(sl, v)
         IN  IF fits = {} THEN [ok |-> FALSE, used |-> {}]
             ELSE LET i == RefLowest(fits)
                  IN  RefPack(Tail(order),
                              [sl EXCEPT ![i] = <<sl[i][1], sl[i][2] - v>>],
                              used \cup {sl[i][1]})

RefPacks(order, sl) == RefPack(order, sl, {}).ok

IdsOf(ls) == {ls[k].id : k \in 1..Len(ls)}

\* The listings of ls named in S, in the order of ls.
RECURSIVE SubListings(_, _)
SubListings(ls, S) ==
    IF ls = <<>> THEN <<>>
    ELSE (IF Head(ls).id \in S THEN <<Head(ls)>> ELSE <<>>)
         \o SubListings(Tail(ls), S)

RECURSIVE SumPrices(_, _)
SumPrices(ls, S) ==
    IF ls = <<>> THEN 0
    ELSE (IF Head(ls).id \in S THEN Head(ls).price_in_cents ELSE 0)
         + SumPrices(Tail(ls), S)

OrientationNames == {"width", "length"}

\* The orderings handed to vehicles_fit_listings, as a set.
TriedOrderings == {vehicle_orderings[k] : k \in 1..Len(vehicle_orderings)}

\* S, restricted to its own slots under one orientation, packs some tried
\* ordering of the vehicles.
SubsetPacks(ls, S, orders) ==
    \E o \in OrientationNames, ord \in orders :
        RefPacks(ord, RefSlotList(SubListings(ls, S), o))

InVfl == entry = "vehicles_fit_listings"
InFind == entry = "findListings"

\* The demand of a query, longest vehicle first (the order the Subset Search
\* of the specification packs in).
RECURSIVE SortDesc(_)
SortDesc(s) ==
    IF s = <<>> THEN <<>>
    ELSE LET m == CHOOSE i \in 1..Len(s) : \A j \in 1..Len(s) : s[j] <= s[i]
         IN  <<s[m]>> \o SortDesc([k \in 1..(Len(s) - 1) |->
                                      IF k < m THEN s[k] ELSE s[k + 1]])

QueryDemand == SortDesc(parse_vehicle_query(vehicle_query))

\* The feasible combinations of a location: (identifier set, total price) for
\* every non-empty subset of its listings that packs the demand under one
\* orientation.
FeasibleCombinations(ls, demand) ==
    { <<S, SumPrices(ls, S)>> :
        S \in { T \in SUBSET IdsOf(ls) : T # {} /\ SubsetPacks(ls, T, {demand}) } }

\* The locations of listings.json, as load_locations groups them, with the
\* empty demand feasible nowhere (scenario 5 of the specification).
LocationCombinations(loc) ==
    IF QueryDemand = <<>> THEN {}
    ELSE FeasibleCombinations(load_locations(listings_file)[loc], QueryDemand)

FileLocations == DOMAIN load_locations(listings_file)

FindListingsDone == InFind /\ pc = "done"

\* The entries of a returned list.
Entries(r) == {r.items[k] : k \in 1..Len(r.items)}

\* C1 (as claimed): for every location with a feasible combination,
\* findListings returns an entry for it that is one of its feasible
\* combinations and whose total price is at most that of every feasible
\* combination of the location.
C1_MinimumPriceEntry ==
    FindListingsDone =>
        \A loc \in FileLocations :
            LocationCombinations(loc) # {} =>
                /\ result.type = "list"
                /\ \E e \in Entries(result) :
                      /\ e.location_id = loc
                      /\ <<e.listing_ids, e.total_price_in_cents>>
                            \in LocationCombinations(loc)
                      /\ \A c \in LocationCombinations(loc) :
                            e.total_price_in_cents <= c[2]

\* C2 (as claimed): findListings returns a list with exactly one entry for
\* each location that has a feasible combination and no entry for any other
\* location; with no feasible location (no locations at all, or a vehicle
\* longer than every slot) it is the empty list.
C2_OneEntryPerFeasibleLocation ==
    FindListingsDone =>
        /\ result.type = "list"
        /\ \A loc \in FileLocations :
              LocationCombinations(loc) # {} =>
                  Cardinality({k \in 1..Len(result.items) :
                                  result.items[k].location_id = loc}) = 1
        /\ \A e \in Entries(result) :
              /\ e.location_id \in FileLocations
              /\ LocationCombinations(e.location_id) # {}

\* C3 (as claimed): for an empty vehicle demand (empty query, or every
\* quantity 0) findListings returns the empty list, whatever the listings.
C3_EmptyDemandEmptyList ==
    (FindListingsDone /\ parse_vehicle_query(vehicle_query) = <<>>) =>
        result = PyList(<<>>)

VflDone == InVfl /\ pc = "done"

\* C4 (as claimed): completeness of vehicles_fit_listings. For a demand of at
\* least one vehicle, every non-empty subset of the listings whose own slots,
\* under one orientation, first-fit pack an ordering that was tried is in the
\* returned set, and the returned set is exactly the set of those subsets.
C4_SubsetSearchComplete ==
    (VflDone /\ \A ord \in TriedOrderings : ord # <<>>) =>
        /\ \A S \in SUBSET IdsOf(listings) :
              (S # {} /\ SubsetPacks(listings, S, TriedOrderings)) =>
                  \E c \in result.elems : c.elems = S
        /\ {c.elems : c \in result.elems} =
              {S \in SUBSET IdsOf(listings) :
                  S # {} /\ SubsetPacks(listings, S, TriedOrderings)}

\* C5: soundness of vehicles_fit_listings. Every member of the set being
\* collected, and of the set returned, is a frozenset naming a non-empty
\* subset of the listings whose own slots, all under one orientation,
\* first-fit pack every vehicle of an ordering that was tried.
SoundCombination(c) ==
    /\ c.type = "frozenset"
    /\ c.elems # {}
    /\ c.elems \subseteq IdsOf(listings)
    /\ SubsetPacks(listings, c.elems, TriedOrderings)

C5_SubsetSearchSound ==
    InVfl =>
        /\ \A c \in listings_combinations : SoundCombination(c)
        /\ pc = "done" =>
              /\ result.type = "set"
              /\ \A c \in result.elems : SoundCombination(c)

\* C5 witness: a call has returned {B} alone for two listings, the vehicles
\* having passed over the slots of A.
C5_Witness ==
    /\ VflDone
    /\ Len(listings) = 2
    /\ result.elems = {PyFrozenset({"B"})}

\* C6 (as claimed): every element of the returned set is a pair (frozenset of
\* listing identifiers, total price), the price being the sum of
\* price_in_cents of the listings named, each counted once.
C6_CombinationWithPrice ==
    VflDone =>
        \A e \in result.elems :
            /\ e.type = "tuple"
            /\ e.items[1].type = "frozenset"
            /\ e.items[2] = SumPrices(listings, e.items[1].elems)

\* The slot list of the running orientation exists in these positions.
SlotsBuilt == InVfl /\ pc \in {"for_order", "fit", "fit_return"}

RunningOrientation == Orientations[orientation]

\* C7: for every listing the slot list holds, under the width orientation,
\* exactly (width div 10) slots tagged with its id, each of capacity length,
\* and under the length orientation exactly (length div 10) slots each of
\* capacity width, the division truncating; the list holds nothing else, so
\* slots of the two orientations are never mixed.
C7_SlotGenerator ==
    SlotsBuilt =>
        /\ \A k \in 1..Len(listings) :
              LET own == {i \in 1..Len(location_slots) :
                             location_slots[i][1] = listings[k].id}
                  lanes == IF RunningOrientation = "width"
                           THEN listings[k].width ELSE listings[k].length
                  cap == IF RunningOrientation = "width"
                         THEN listings[k].length ELSE listings[k].width
              IN  /\ 10 * Cardinality(own) <= lanes
                  /\ lanes < 10 * (Cardinality(own) + 1)
                  /\ \A i \in own : location_slots[i][2] = cap
        /\ \A i \in 1..Len(location_slots) : location_slots[i][1] \in IdsOf(listings)

\* C7 witness: the length orientation of a listing 25 long and 10 wide (two
\* slots of capacity 10, 25 div 10 truncated) next to a 10 by 25 listing (one
\* slot of capacity 25).
C7_Witness ==
    /\ SlotsBuilt
    /\ RunningOrientation = "length"
    /\ Len(listings) = 2
    /\ listings[1].length = 25 /\ listings[1].width = 10
    /\ listings[2].length = 10 /\ listings[2].width = 25
    /\ location_slots = <<<<"A", 10>>, <<"A", 10>>, <<"B", 25>>>>

\* One iteration of vehicle_order_fit_slot is about to run.
AtVehicle == pc = "fit" /\ veh_idx <= Len(vehicle_order)

\* C8, the step: the vehicle goes into the lowest-index slot whose remaining
\* capacity is >= its length, that slot alone changes, by the length; when no
\* slot admits it the call returns None at once and nothing is placed.
C8_Step ==
    AtVehicle =>
        LET v == vehicle_order[veh_idx]
            fits == RefFits(slots, v)
        IN  IF fits # {}
            THEN LET i == RefLowest(fits)
                 IN  /\ slots' = [slots EXCEPT ![i] = <<slots[i][1], slots[i][2] - v>>]
                     /\ placed' = Append(placed, i)
                     /\ slots[i][1] \in listings_used'
                     /\ veh_idx' = veh_idx + 1
                     /\ pc' = "fit"
            ELSE /\ fit_result' = PyNone
                 /\ pc' = "fit_return"
                 /\ slots' = slots
                 /\ placed' = placed

\* C8, the result: a set is returned exactly when every vehicle was placed, and
\* it is the set of owners of the slots that received a vehicle; None is
\* returned with the vehicles after the failing one not placed.
C8_Result ==
    pc = "fit_return" =>
        IF Len(placed) = Len(vehicle_order)
        THEN fit_result = PySet({slots[placed[k]][1] : k \in 1..Len(placed)})
        ELSE /\ fit_result = PyNone
             /\ Len(placed) = veh_idx - 1
             /\ Len(placed) < Len(vehicle_order)
             /\ RefFits(slots, vehicle_order[veh_idx]) = {}

\* C8: vehicle_order_fit_slot is greedy first-fit in the given order.
C8_GreedyFirstFit == [][C8_Step /\ C8_Result']_vars

\* C8 witness: two vehicles were placed, the second one in a later slot than
\* the first, and the owners of both slots were returned.
C8_Witness ==
    /\ pc = "fit_return"
    /\ Len(placed) = 2
    /\ placed[1] < placed[2]
    /\ fit_result = PySet({"A", "B"})

\* Sum of the lengths of the vehicles placed so far in slot j.
RECURSIVE PlacedLength(_, _)
PlacedLength(j, n) ==
    IF n = 0 THEN 0
    ELSE (IF placed[n] = j THEN vehicle_order[n] ELSE 0) + PlacedLength(j, n - 1)

\* C9: at every step of vehicle_order_fit_slot every slot's remaining capacity
\* is a non-negative integer, equal to the capacity the slot had at the call
\* (CallFit copies location_slots) minus the lengths of the vehicles placed in
\* it.
C9_CapacityAccounting ==
    (InVfl /\ pc \in {"fit", "fit_return"}) =>
        /\ Len(slots) = Len(location_slots)
        /\ \A j \in 1..Len(slots) :
              /\ slots[j][2] \in Nat
              /\ slots[j][2] = location_slots[j][2] - PlacedLength(j, Len(placed))

\* C9 witness: a slot of capacity 25 holds two vehicles of length 10 and has
\* 5 left.
C9_Witness ==
    /\ pc \in {"fit", "fit_return"}
    /\ \E j \in 1..Len(slots) :
          /\ location_slots[j][2] = 25
          /\ slots[j][2] = 5
          /\ Cardinality({k \in 1..Len(placed) : placed[k] = j}) = 2

\* C10: the slot list of an orientation is not changed by any packing
\* attempt; every attempt starts from a copy equal to the full slot list of
\* the running orientation, and each orientation's list is built from the
\* listings anew.
C10_Step ==
    /\ (pc \in {"for_order", "fit", "fit_return"} /\ pc' # "for_orientation") =>
          location_slots' = location_slots
    /\ (pc = "for_order" /\ pc' = "fit") =>
          /\ slots' = location_slots
          /\ location_slots = RefSlotList(listings, RunningOrientation)
    /\ (pc = "for_orientation" /\ pc' = "for_order") =>
          location_slots' = RefSlotList(listings, Orientations[orientation'])

C10_SlotListUnchanged == [][C10_Step]_vars

\* C10 witness: the second ordering of an orientation starts on the full slot
\* list after the first ordering was packed successfully.
C10_Witness ==
    /\ pc = "fit"
    /\ ord_idx = 2
    /\ placed = <<>>
    /\ listings_combinations # {}
    /\ slots = location_slots
    /\ slots # <<>>
    /\ orientation = 1

\* Two slots and two vehicle lengths a < b on which the order decides: the
\* long vehicle fits the first slot only, the short one fits both, and the
\* first slot cannot hold the two together.
OrderDecides(a, b, s1, s2) ==
    /\ a < b
    /\ b <= s1
    /\ s2 < b
    /\ a <= s2
    /\ a + b > s1

\* C11: the verdict of vehicle_order_fit_slot depends on the order of the
\* vehicles. On a slot list of two slots as in OrderDecides, the checker
\* returns None for the ordering (short, long) and the owners of both slots
\* for the ordering (long, short) of the same two vehicles; so a failure does
\* not show that no packing exists.
C11_OrderSensitive ==
    (InVfl /\ pc = "fit_return" /\ Len(location_slots) = 2
        /\ Len(vehicle_order) = 2) =>
        LET s1 == location_slots[1][2]
            s2 == location_slots[2][2]
            x == vehicle_order[1]
            y == vehicle_order[2]
        IN  /\ OrderDecides(x, y, s1, s2) => fit_result = PyNone
            /\ OrderDecides(y, x, s1, s2) =>
                  fit_result = PySet({location_slots[1][1], location_slots[2][1]})

\* C11 witness: under one orientation, on one slot list, the first ordering of
\* two different vehicles has failed (nothing was collected) and the second
\* ordering, the same vehicles the other way round, has succeeded.
C11_Witness ==
    /\ InVfl
    /\ pc = "fit_return"
    /\ orientation = 1
    /\ ord_idx = 2
    /\ Len(vehicle_orderings[1]) = 2
    /\ vehicle_orderings[1][1] # vehicle_orderings[1][2]
    /\ vehicle_orderings[2] = <<vehicle_orderings[1][2], vehicle_orderings[1][1]>>
    /\ listings_combinations = {}
    /\ fit_result.type = "set"
    /\ Cardinality(fit_result.elems) = 2

\* The listings with no usable slot under either orientation.
NoSlotListings ==
    {listings[k].id : k \in {j \in 1..Len(listings) :
                                listings[j].length < 10 /\ listings[j].width < 10}}

\* C12: a listing whose length and width are both below 10 owns no slot, is
\* never used by a packing attempt and is in no combination collected or
\* returned by vehicles_fit_listings, whatever the vehicles and the other
\* listings; the call does not stop short of its return.
C12_NoSlotListingNeverUsed ==
    (InVfl /\ NoSlotListings # {}) =>
        /\ \A i \in 1..Len(location_slots) : location_slots[i][1] \notin NoSlotListings
        /\ listings_used \cap NoSlotListings = {}
        /\ \A c \in listings_combinations : c.elems \cap NoSlotListings = {}
        /\ pc = "done" => \A c \in result.elems : c.elems \cap NoSlotListings = {}
        /\ pc # "done" => ENABLED Next

\* C12 witness: a call with a 5 by 5 listing A, a second listing B and a
\* vehicle of length 5 has returned, and B alone was used.
C12_Witness ==
    /\ VflDone
    /\ Len(listings) = 2
    /\ NoSlotListings = {"A"}
    /\ \E k \in 1..Len(vehicle_orderings) :
          \E n \in 1..Len(vehicle_orderings[k]) : vehicle_orderings[k][n] = 5
    /\ PyFrozenset({"B"}) \in result.elems

====
